---- MODULE Spec2Model ----
(***************************************************************************)
(* Chunked multi-year comparison pipeline of                               *)
(* src/needs_analysis/chunked_needs_analysis.py: chunk_text, compare_chunk,*)
(* synthesize_comparisons, analyze_multi_year_chunked and run.             *)
(*                                                                         *)
(* A text is a sequence of characters.  The character "X" stands for a run *)
(* of BlockLen copies of a letter: it is not whitespace, holds no line     *)
(* break and counts BlockLen towards len(), so that texts longer than      *)
(* CHUNK_SIZE = 12000 characters stay small sequences.  "Y" is such a run  *)
(* of BlockLen - 2 letters.                                                *)
(***************************************************************************)
EXTENDS Integers, Sequences, FiniteSets, TLC

\* ------------------------------------------------------------------ bounds
\* longest text handed to chunk_text in the chunker specification
MaxLen == 6
\* largest chunk budget tried in the chunker specification
MaxBudget == 7
\* most community boards the table holds
MaxBoards == 3
\* the largest number of boards in a table whose boards all have short texts
MaxPlainBoards == 7
\* number of characters the run character "X" stands for
BlockLen == 6000
\* the largest number of events a LinkParser is fed
MaxEvents == 5
\* the largest number of links on the board list page
MaxPageLinks == 3
\* the largest length of the text the analysis model generates
MaxReplyLen == 4
\* the largest number of boards, and the largest max_cbs, of a provider run
MaxCbs == 3

\* ------------------------------------------------------- program constants
CHUNK_SIZE == 12000

Max(S) == CHOOSE x \in S : \A y \in S : y <= x
Min(S) == CHOOSE x \in S : \A y \in S : x <= y

\* ------------------------------------------------------------ Python str
\* str.strip() with no argument removes these from both ends
Whitespace == {" ", "\n", "\t", "\r"}

Width(c) == IF c = "X" THEN BlockLen ELSE IF c = "Y" THEN BlockLen - 2 ELSE 1

\* len(s)
RECURSIVE PyLen(_)
PyLen(s) == IF s = <<>> THEN 0 ELSE Width(Head(s)) + PyLen(Tail(s))

\* the separator '\n\n'
Sep == <<"\n", "\n">>

\* text.split('\n\n'): left to right, non-overlapping, empty pieces kept
RECURSIVE SplitFrom(_, _, _)
SplitFrom(text, i, piece) ==
  IF i > Len(text) THEN <<piece>>
  ELSE IF i < Len(text) /\ text[i] = "\n" /\ text[i + 1] = "\n"
       THEN <<piece>> \o SplitFrom(text, i + 2, <<>>)
       ELSE SplitFrom(text, i + 1, Append(piece, text[i]))

split(text) == SplitFrom(text, 1, <<>>)

RECURSIVE lstrip(_)
lstrip(s) == IF s # <<>> /\ Head(s) \in Whitespace THEN lstrip(Tail(s)) ELSE s

RECURSIVE rstrip(_)
rstrip(s) ==
  IF s # <<>> /\ s[Len(s)] \in Whitespace THEN rstrip(SubSeq(s, 1, Len(s) - 1)) ELSE s

\* s.strip()
strip(s) == rstrip(lstrip(s))

\* ------------------------------------------------------------ chunk_text
\* the for loop of chunk_text from paragraph k on
RECURSIVE chunk_loop(_, _, _, _, _)
chunk_loop(paragraphs, k, chunks, current_chunk, chunk_size) ==
  IF k > Len(paragraphs)
  THEN [chunks |-> chunks, current_chunk |-> current_chunk]
  ELSE LET para == paragraphs[k] IN
       IF PyLen(current_chunk) + PyLen(para) + 2 <= chunk_size
       THEN chunk_loop(paragraphs, k + 1, chunks,
                       current_chunk \o para \o Sep, chunk_size)
       ELSE chunk_loop(paragraphs, k + 1,
                       IF current_chunk # <<>>
                       THEN Append(chunks, strip(current_chunk))
                       ELSE chunks,
                       para \o Sep, chunk_size)

\* faulty variant: a paragraph is appended only when the buffer stays below
\* the budget
RECURSIVE chunk_loop_strict(_, _, _, _, _)
chunk_loop_strict(paragraphs, k, chunks, current_chunk, chunk_size) ==
  IF k > Len(paragraphs)
  THEN [chunks |-> chunks, current_chunk |-> current_chunk]
  ELSE LET para == paragraphs[k] IN
       IF PyLen(current_chunk) + PyLen(para) + 2 < chunk_size
       THEN chunk_loop_strict(paragraphs, k + 1, chunks,
                              current_chunk \o para \o Sep, chunk_size)
       ELSE chunk_loop_strict(paragraphs, k + 1,
                              IF current_chunk # <<>>
                              THEN Append(chunks, strip(current_chunk))
                              ELSE chunks,
                              para \o Sep, chunk_size)

chunk_text_strict(text, chunk_size) ==
  LET r == chunk_loop_strict(split(text), 1, <<>>, <<>>, chunk_size) IN
  IF r.current_chunk # <<>>
  THEN Append(r.chunks, strip(r.current_chunk))
  ELSE r.chunks

\* faulty variant: the separator is not counted when a paragraph is appended
RECURSIVE chunk_loop_nosep(_, _, _, _, _)
chunk_loop_nosep(paragraphs, k, chunks, current_chunk, chunk_size) ==
  IF k > Len(paragraphs)
  THEN [chunks |-> chunks, current_chunk |-> current_chunk]
  ELSE LET para == paragraphs[k] IN
       IF PyLen(current_chunk) + PyLen(para) <= chunk_size
       THEN chunk_loop_nosep(paragraphs, k + 1, chunks,
                             current_chunk \o para \o Sep, chunk_size)
       ELSE chunk_loop_nosep(paragraphs, k + 1,
                             IF current_chunk # <<>>
                             THEN Append(chunks, strip(current_chunk))
                             ELSE chunks,
                             para \o Sep, chunk_size)

chunk_text_nosep(text, chunk_size) ==
  LET r == chunk_loop_nosep(split(text), 1, <<>>, <<>>, chunk_size) IN
  IF r.current_chunk # <<>>
  THEN Append(r.chunks, strip(r.current_chunk))
  ELSE r.chunks

\* faulty variant: a buffer is flushed only when it holds more than whitespace
chunk_text_nonblank(text, chunk_size) ==
  LET r == chunk_loop(split(text), 1, <<>>, <<>>, chunk_size) IN
  IF strip(r.current_chunk) # <<>>
  THEN Append(r.chunks, strip(r.current_chunk))
  ELSE r.chunks

\* faulty variant: the final buffer is never flushed
chunk_text_noflush(text, chunk_size) ==
  chunk_loop(split(text), 1, <<>>, <<>>, chunk_size).chunks

\* faulty variant: a chunk is cut at the budget
chunk_text_truncate(text, chunk_size) ==
  LET r == chunk_loop(split(text), 1, <<>>, <<>>, chunk_size)
      cs == IF r.current_chunk # <<>>
            THEN Append(r.chunks, strip(r.current_chunk))
            ELSE r.chunks
  IN [i \in 1..Len(cs) |-> SubSeq(cs[i], 1, Min({chunk_size, Len(cs[i])}))]

chunk_text(text, chunk_size) ==
  LET r == chunk_loop(split(text), 1, <<>>, <<>>, chunk_size) IN
  IF r.current_chunk # <<>>
  THEN Append(r.chunks, strip(r.current_chunk))
  ELSE r.chunks

\* ------------------------------------------------- the generation service
\* What one requests.post to OLLAMA_API can lead to: the transport raises, or
\* a reply with a status code and a body arrives.  A body is not JSON, a JSON
\* object without the "response" key, or a JSON object whose "response" is
\* the generated text, which is the JSON the prompt asks for or is not.
Replies ==
  { [raised |-> TRUE,  status |-> 0,   body |-> "none"],
    [raised |-> FALSE, status |-> 500, body |-> "not_json"],
    [raised |-> FALSE, status |-> 200, body |-> "not_json"],
    [raised |-> FALSE, status |-> 200, body |-> "no_response_key"],
    [raised |-> FALSE, status |-> 200, body |-> "text_wellformed"],
    [raised |-> FALSE, status |-> 200, body |-> "text_unparseable"] }

\* requests.post; raise_for_status; response.json(); result["response"]:
\* the value returned, or the exception raised.  The generated text is
\* returned as it is; the request it answers is kept with it.
generate(request, reply) ==
  IF reply.raised THEN [ok |-> FALSE, exc |-> "ConnectionError"]
  ELSE IF reply.status >= 400 THEN [ok |-> FALSE, exc |-> "HTTPError"]
  ELSE IF reply.body = "not_json" THEN [ok |-> FALSE, exc |-> "JSONDecodeError"]
  ELSE IF reply.body = "no_response_key" THEN [ok |-> FALSE, exc |-> "KeyError"]
  ELSE [ok |-> TRUE,
        value |-> [generated_for |-> request.kind,
                   cb |-> request.cb,
                   wellformed |-> reply.body = "text_wellformed"]]

\* the request compare_chunk posts: its prompt names the board, the section
\* number chunk_index + 1, the total and the three fragments
compare_request(cb_number, chunk_index, total_chunks, fy2024_chunk, fy2025_chunk, fy2026_chunk) ==
  [kind |-> "compare", cb |-> cb_number, section_number |-> chunk_index + 1,
   total |-> total_chunks,
   FY2024 |-> fy2024_chunk, FY2025 |-> fy2025_chunk, FY2026 |-> fy2026_chunk]

\* the request synthesize_comparisons posts: its prompt embeds the board and
\* json.dumps(chunk_analyses)
synthesis_request(cb_number, chunk_analyses) ==
  [kind |-> "synthesis", cb |-> cb_number, analyses |-> chunk_analyses]

compare_chunk(request, reply) == generate(request, reply)

synthesize_comparisons(request, reply) == generate(request, reply)

\* the placeholder of line 203-205
NoContent == <<"[No content in this section]">>

\* fy_chunks[i] if i < len(fy_chunks) else the placeholder (i counts from 0)
\* faulty variant: the chunks are taken from the end
chunk_or_placeholder_reversed(chunks, i) ==
  IF i < Len(chunks) THEN chunks[Len(chunks) - i] ELSE NoContent

chunk_or_placeholder(chunks, i) ==
  IF i < Len(chunks) THEN chunks[i + 1] ELSE NoContent

\* json.dumps({"error": str(e)})
error_json(exc) == [error |-> exc]

\* faulty variant: the reason of the failure is not kept
section_entry_noreason(i, result) ==
  IF result.ok
  THEN [section |-> i + 1, analysis |-> result.value]
  ELSE [section |-> i + 1, analysis |-> error_json("failed")]

\* faulty variant: the section number counts from 0
section_entry_zero_based(i, result) ==
  IF result.ok
  THEN [section |-> i, analysis |-> result.value]
  ELSE [section |-> i, analysis |-> error_json(result.exc)]

\* the entry appended for section i (from 0) after compare_chunk returned or raised
section_entry(i, result) ==
  IF result.ok
  THEN [section |-> i + 1, analysis |-> result.value]
  ELSE [section |-> i + 1, analysis |-> error_json(result.exc)]

\* faulty variant: the last index is left out
in_range_short(i, n) == i < n - 1

\* for i in range(n): whether the loop body runs for index i
in_range(i, n) == i < n

\* max(len(a), len(b), len(c))
\* faulty variant: the first count only
max3_first(a, b, c) == a

max3(a, b, c) == IF a >= b /\ a >= c THEN a ELSE IF b >= c THEN b ELSE c

\* f"needs_comparison_BK_CB{cb_num}.json"
\* faulty variant: one file name for all boards
filename_fixed(cb_num) == <<"needs_comparison_BK_CB", ".json">>

filename(cb_num) == <<"needs_comparison_BK_CB", ToString(cb_num), ".json">>

\* ------------------------------------------------------ the stored table
Years == <<"FY2024", "FY2025", "FY2026">>

\* 'FY2024' in url or '2024' in url, elif ... : the key a row is stored under
\* (a url is a sequence of parts; "none" when no year is in it)
year_key(url) ==
  IF \E k \in 1..Len(url) : url[k] \in {"FY2024", "2024"} THEN "FY2024"
  ELSE IF \E k \in 1..Len(url) : url[k] \in {"FY2025", "2025"} THEN "FY2025"
  ELSE IF \E k \in 1..Len(url) : url[k] \in {"FY2026", "2026"} THEN "FY2026"
  ELSE "none"

\* the loop over the rows of one board (in pdf_url order): a later row
\* overwrites an earlier one of the same year
RECURSIVE statements_of(_, _, _)
statements_of(rows, k, statements) ==
  IF k > Len(rows) THEN statements
  ELSE LET key == year_key(rows[k].pdf_url) IN
       statements_of(rows, k + 1,
         IF key = "none" THEN statements
         ELSE [y \in DOMAIN statements \cup {key} |->
                 IF y = key THEN rows[k].text ELSE statements[y]])

\* get_statements_by_cb: table[b] holds the rows of board b ordered by
\* pdf_url; the boards are visited in ascending cb_number and a board is kept
\* when its statements hold three keys.  The result keeps the insertion order.
RECURSIVE statements_from(_, _)
statements_from(table, b) ==
  IF b > Len(table) THEN <<>>
  ELSE LET statements == statements_of(table[b], 1, <<>>) IN
       (IF Cardinality(DOMAIN statements) = 3
        THEN <<[cb_num |-> b, statements |-> statements]>>
        ELSE <<>>) \o statements_from(table, b + 1)

\* faulty variant: every board is kept, a missing year as the empty text
get_statements_by_cb_padded(table) ==
  [b \in 1..Len(table) |->
     LET found == statements_of(table[b], 1, <<>>) IN
     [cb_num |-> b,
      statements |-> [y \in {"FY2024", "FY2025", "FY2026"} |->
                        IF y \in DOMAIN found THEN found[y] ELSE <<>>]]]

get_statements_by_cb(table) == statements_from(table, 1)

\* ------------------------------------------------------------------ state
VARIABLES
  c_text,   \* chunker specification: the text argument
  c_size,   \* chunker specification: the chunk_size argument
  c_pc,     \* chunker specification: "call" before, "returned" after the call
  c_chunks, \* chunker specification: the list chunk_text returned
  dns_pdfs,        \* the table: for each cb_number its rows in pdf_url order
  pc,              \* where run is
  cb_data,         \* run: the boards get_statements_by_cb returned, in order
  i_cb,            \* run: enumerate's index i of the board being processed
  fy_chunks,       \* analyze_multi_year_chunked: the three chunk lists
  max_chunks,      \* analyze_multi_year_chunked: the aligned section count
  i_sec,           \* analyze_multi_year_chunked: the loop index i
  chunk_analyses,  \* analyze_multi_year_chunked: the accumulator list
  inflight,        \* the requests posted and not yet answered
  calls,           \* every request posted so far, in order (outcome left out)
  output,          \* run: what analyze_multi_year_chunked returned
  files,           \* the files written: file name -> content
  exception,       \* the exception that left run, "none" if none
  failed,          \* history: the sections of the current board whose
                   \* compare_chunk call raised, each with the exception
  links,    \* LinkParser.links: the (text, href) pairs collected
  in_a,     \* LinkParser._in_a
  href,     \* LinkParser._href
  buf,      \* LinkParser._buf: the data pieces of the open anchor
  events,   \* history: the events the parser was fed, in order
  a_pc,         \* audit: where audit is
  page_links,   \* audit: parser.links of the board list page
  cb_links,     \* audit: the dict extract_cb_links returned, in insertion order
  a_order,      \* audit: sorted(cb_links.items(), key=int of the number)
  a_i,          \* audit: how many sites the loop has been through
  results,      \* audit: the result records
  fetched,      \* history: the site urls fetch_html was called with, in order
  written,      \* audit: what was written to OUTPUT_PATH, one entry per write
  a_exception,  \* the exception that left audit, "none" if none
  d_pc,            \* demographics main: where main is
  year_extractions,\* main: the years whose extraction has been stored
  request_ok,      \* history: the analysis request returned a 200 JSON reply
  analysis_text,   \* analyze_all_years_with_llm: the generated text
  final_analysis,  \* main: what analyze_all_years_with_llm returned
  d_files,         \* the files main has written
  d_exception,     \* the exception that left main, "none" if none
  l_pc,         \* provider run: where run is
  provider,     \* provider run: the provider argument
  environ,      \* os.environ: the two API key variables
  n_boards,     \* provider run: len(cb_data)
  max_cbs,      \* provider run: the max_cbs argument
  l_i,          \* provider run: enumerate's index i
  posted,       \* history: the HTTP requests call_llm has issued
  l_files,      \* the files the provider run has written
  l_exception   \* the exception that left the provider run, "none" if none

chunk_vars == <<c_text, c_size, c_pc, c_chunks>>
run_vars == <<dns_pdfs, pc, cb_data, i_cb, fy_chunks, max_chunks, i_sec,
              chunk_analyses, inflight, calls, output, files, exception,
              failed>>
link_vars == <<links, in_a, href, buf, events>>
audit_vars == <<a_pc, page_links, cb_links, a_order, a_i, results, fetched,
                written, a_exception>>
demo_vars == <<d_pc, year_extractions, request_ok, analysis_text,
               final_analysis, d_files, d_exception>>
llm_vars == <<l_pc, provider, environ, n_boards, max_cbs, l_i, posted,
              l_files, l_exception>>
other_vars == <<link_vars, audit_vars, demo_vars, llm_vars>>
vars == <<c_text, c_size, c_pc, c_chunks, dns_pdfs, pc, cb_data, i_cb,
          fy_chunks, max_chunks, i_sec, chunk_analyses, inflight, calls,
          output, files, exception, failed, other_vars>>

\* Python's None
None == [none |-> TRUE, s |-> <<>>]
\* a Python str, as its sequence of characters
Str(s) == [none |-> FALSE, s |-> s]

\* no LinkParser is fed
LinkIdle ==
  /\ links = <<>>
  /\ in_a = FALSE
  /\ href = None
  /\ buf = <<>>
  /\ events = <<>>

\* audit is not run
AuditIdle ==
  /\ a_pc = "idle"
  /\ page_links = <<>>
  /\ cb_links = <<>>
  /\ a_order = <<>>
  /\ a_i = 0
  /\ results = <<>>
  /\ fetched = <<>>
  /\ written = <<>>
  /\ a_exception = "none"

\* the demographics main is not run
DemoIdle ==
  /\ d_pc = "idle"
  /\ year_extractions = {}
  /\ request_ok = FALSE
  /\ analysis_text = <<>>
  /\ final_analysis = "none"
  /\ d_files = {}
  /\ d_exception = "none"

\* the provider run is not run
LlmIdle ==
  /\ l_pc = "idle"
  /\ provider = "none"
  /\ environ = <<>>
  /\ n_boards = 0
  /\ max_cbs = 0
  /\ l_i = 0
  /\ posted = <<>>
  /\ l_files = {}
  /\ l_exception = "none"

OthersIdle == LinkIdle /\ AuditIdle /\ DemoIdle /\ LlmIdle

\* ------------------------------------------------ chunker specification
Chars == {"a", "b", "\n"}

RECURSIVE TextsOfLen(_)
TextsOfLen(n) ==
  IF n = 0 THEN {<<>>}
  ELSE {Append(t, c) : t \in TextsOfLen(n - 1), c \in Chars}

Texts == UNION {TextsOfLen(n) : n \in 0..MaxLen}

\* the pipeline is not run in the chunker specification
RunIdle ==
  /\ dns_pdfs = <<>>
  /\ pc = "idle"
  /\ cb_data = <<>>
  /\ i_cb = 0
  /\ fy_chunks = <<>>
  /\ max_chunks = 0
  /\ i_sec = 0
  /\ chunk_analyses = <<>>
  /\ inflight = <<>>
  /\ calls = <<>>
  /\ output = "none"
  /\ files = <<>>
  /\ exception = "none"
  /\ failed = {}

InitChunk ==
  /\ c_text \in Texts
  /\ c_size \in 0..MaxBudget
  /\ c_pc = "call"
  /\ c_chunks = <<>>
  /\ RunIdle
  /\ OthersIdle

CallChunkText ==
  /\ c_pc = "call"
  /\ c_chunks' = chunk_text(c_text, c_size)
  /\ c_pc' = "returned"
  /\ UNCHANGED <<c_text, c_size>>
  /\ UNCHANGED run_vars
  /\ UNCHANGED other_vars

NextChunk == CallChunkText

SpecChunk == InitChunk /\ [][NextChunk]_vars

\* ------------------------------------------------------------- the pipeline
X == "X"
Y == "Y"
NL == "\n"

\* three yearly texts of one board, FY2024, FY2025, FY2026
Triples ==
  { \* "A\n\nB", "A\n\nB\n\nC", "A": one chunk each
    <<<<"a", NL, NL, "b">>, <<"a", NL, NL, "b", NL, NL, "c">>, <<"a">>>>,
    \* three empty texts
    <<<<>>, <<>>, <<>>>>,
    \* three, two and one chunk
    <<<<X, NL, NL, X, NL, NL, X>>, <<X, NL, NL, "a", NL, NL, X>>, <<"a">>>>,
    \* one paragraph over the budget; three chunks; two chunks
    <<<<X, X, X>>, <<X, NL, NL, X, NL, NL, X, "a">>, <<X, NL, NL, X>>>>,
    \* CHUNK_SIZE characters in two paragraphs
    <<<<X, NL, NL, Y>>, <<"a">>, <<"a">>>>,
    \* CHUNK_SIZE - 2 characters in two paragraphs
    <<<<"a">>, <<Y, NL, NL, Y>>, <<"a">>>> }

PlainTriple == <<<<"a">>, <<"b">>, <<"c">>>>

url_of(b, year) == <<"https://www.nyc.gov/dns/bk", ToString(b), "_", year, ".pdf">>

\* the rows of board b: one per year, for the first n_years years
rows_of(b, triple, n_years) ==
  [k \in 1..n_years |-> [pdf_url |-> url_of(b, Years[k]), text |-> triple[k]]]

\* three rows of board b that cover two years only: FY2024 twice, FY2025
duplicate_rows_of(b, triple) ==
  << [pdf_url |-> url_of(b, "FY2024"), text |-> triple[1]],
     [pdf_url |-> <<"https://www.nyc.gov/dns/bk", ToString(b), "_", "FY2024",
                    "_rev", ".pdf">>, text |-> triple[2]],
     [pdf_url |-> url_of(b, "FY2025"), text |-> triple[3]] >>

\* the tables tried: 1..MaxBoards boards; the first board's texts vary; the
\* second board has its three years, lacks its FY2026 row, or has three rows
\* of which two are of the same year.  Tables of more boards, up to
\* MaxPlainBoards, hold short texts only.
Tables ==
  { [b \in 1..n |->
       IF b = 2 /\ kind = "duplicate_year"
       THEN duplicate_rows_of(b, PlainTriple)
       ELSE rows_of(b, IF b = 1 THEN t ELSE PlainTriple,
                    IF b = 2 /\ kind = "two_years" THEN 2 ELSE 3)] :
    n \in 1..MaxBoards, t \in Triples,
    kind \in {"complete", "two_years", "duplicate_year"} }
  \cup
  { [b \in 1..n |->
       IF b = 2 /\ kind = "duplicate_year"
       THEN duplicate_rows_of(b, PlainTriple)
       ELSE rows_of(b, PlainTriple,
                    IF b = 2 /\ kind = "two_years" THEN 2 ELSE 3)] :
    n \in (MaxBoards + 1)..MaxPlainBoards,
    kind \in {"complete", "two_years", "duplicate_year"} }

\* the chunker harness is not run in the pipeline specification
ChunkIdle ==
  /\ c_text = <<>>
  /\ c_size = 0
  /\ c_pc = "idle"
  /\ c_chunks = <<>>

NoChunks == [y \in {"FY2024", "FY2025", "FY2026"} |-> <<>>]

Init ==
  /\ ChunkIdle
  /\ OthersIdle
  /\ dns_pdfs \in Tables
  /\ pc = "start"
  /\ cb_data = <<>>
  /\ i_cb = 0
  /\ fy_chunks = NoChunks
  /\ max_chunks = 0
  /\ i_sec = 0
  /\ chunk_analyses = <<>>
  /\ inflight = <<>>
  /\ calls = <<>>
  /\ output = "none"
  /\ files = <<>>
  /\ exception = "none"
  /\ failed = {}

\* the board the loop of run is at
cb_num == cb_data[i_cb + 1].cb_num
\* faulty variant: the texts of the first board are taken for every board
statements_first == cb_data[1].statements

statements == cb_data[i_cb + 1].statements

\* run, line 230: cb_data = get_statements_by_cb()
RunStart ==
  /\ pc = "start"
  /\ cb_data' = get_statements_by_cb(dns_pdfs)
  /\ i_cb' = 0
  /\ pc' = "loop"
  /\ UNCHANGED <<dns_pdfs, fy_chunks, max_chunks, i_sec, chunk_analyses,
                 inflight, calls, output, files, exception, failed>>
  /\ UNCHANGED chunk_vars
  /\ UNCHANGED other_vars

\* faulty variant: only the FY2024 text is chunked before the section loop
AnalyzeStart_partial ==
  /\ pc = "loop"
  /\ i_cb < Len(cb_data)
  /\ i_cb < 5
  /\ fy_chunks' = [y \in {"FY2024", "FY2025", "FY2026"} |->
                     IF y = "FY2024" THEN chunk_text(statements[y], CHUNK_SIZE)
                     ELSE <<>>]
  /\ max_chunks' = max3(Len(fy_chunks'["FY2024"]), Len(fy_chunks'["FY2025"]),
                        Len(fy_chunks'["FY2026"]))
  /\ chunk_analyses' = <<>>
  /\ i_sec' = 0
  /\ pc' = "sections"
  /\ failed' = {}
  /\ UNCHANGED <<dns_pdfs, cb_data, i_cb, inflight, calls, output, files,
                 exception>>
  /\ UNCHANGED chunk_vars
  /\ UNCHANGED other_vars

\* faulty variant: the loop of run stops after six boards
AnalyzeStart_six ==
  /\ pc = "loop"
  /\ i_cb < Len(cb_data)
  /\ i_cb < 6
  /\ fy_chunks' = [y \in {"FY2024", "FY2025", "FY2026"} |->
                     chunk_text(statements[y], CHUNK_SIZE)]
  /\ max_chunks' = max3(Len(fy_chunks'["FY2024"]), Len(fy_chunks'["FY2025"]),
                        Len(fy_chunks'["FY2026"]))
  /\ chunk_analyses' = <<>>
  /\ i_sec' = 0
  /\ pc' = "sections"
  /\ failed' = {}
  /\ UNCHANGED <<dns_pdfs, cb_data, i_cb, inflight, calls, output, files,
                 exception>>
  /\ UNCHANGED chunk_vars
  /\ UNCHANGED other_vars

\* run, lines 235-246, and analyze_multi_year_chunked, lines 186-199: the next
\* board is taken and its three texts are chunked
AnalyzeStart ==
  /\ pc = "loop"
  /\ i_cb < Len(cb_data)
  /\ i_cb < 5
  /\ fy_chunks' = [y \in {"FY2024", "FY2025", "FY2026"} |->
                     chunk_text(statements[y], CHUNK_SIZE)]
  /\ max_chunks' = max3(Len(fy_chunks'["FY2024"]), Len(fy_chunks'["FY2025"]),
                        Len(fy_chunks'["FY2026"]))
  /\ chunk_analyses' = <<>>
  /\ i_sec' = 0
  /\ pc' = "sections"
  /\ failed' = {}
  /\ UNCHANGED <<dns_pdfs, cb_data, i_cb, inflight, calls, output, files,
                 exception>>
  /\ UNCHANGED chunk_vars
  /\ UNCHANGED other_vars

\* run, lines 235-237: the boards are exhausted, or five have been processed
RunEnd ==
  /\ pc = "loop"
  /\ (i_cb >= Len(cb_data) \/ i_cb >= 5)
  /\ pc' = "done"
  /\ UNCHANGED <<dns_pdfs, cb_data, i_cb, fy_chunks, max_chunks, i_sec,
                 chunk_analyses, inflight, calls, output, files, exception,
                 failed>>
  /\ UNCHANGED chunk_vars
  /\ UNCHANGED other_vars

\* faulty variant: the request is posted and the loop goes on without
\* waiting for the answer
IssueCompare_async ==
  /\ pc = "sections"
  /\ in_range(i_sec, max_chunks)
  /\ LET request ==
           compare_request(cb_num, i_sec, max_chunks,
                           chunk_or_placeholder(fy_chunks["FY2024"], i_sec),
                           chunk_or_placeholder(fy_chunks["FY2025"], i_sec),
                           chunk_or_placeholder(fy_chunks["FY2026"], i_sec))
     IN /\ inflight' = Append(inflight, request)
        /\ calls' = Append(calls, request)
  /\ i_sec' = i_sec + 1
  /\ UNCHANGED <<dns_pdfs, pc, cb_data, i_cb, fy_chunks, max_chunks,
                 chunk_analyses, output, files, exception, failed>>
  /\ UNCHANGED chunk_vars
  /\ UNCHANGED other_vars

\* lines 201-210 and 118: section i_sec is sent to the generation service
IssueCompare ==
  /\ pc = "sections"
  /\ in_range(i_sec, max_chunks)
  /\ LET request ==
           compare_request(cb_num, i_sec, max_chunks,
                           chunk_or_placeholder(fy_chunks["FY2024"], i_sec),
                           chunk_or_placeholder(fy_chunks["FY2025"], i_sec),
                           chunk_or_placeholder(fy_chunks["FY2026"], i_sec))
     IN /\ inflight' = Append(inflight, request)
        /\ calls' = Append(calls, request)
  /\ pc' = "await_compare"
  /\ UNCHANGED <<dns_pdfs, cb_data, i_cb, fy_chunks, max_chunks, i_sec,
                 chunk_analyses, output, files, exception, failed>>
  /\ UNCHANGED chunk_vars
  /\ UNCHANGED other_vars

\* faulty variant: a failed section is sent again
ReturnCompare_retry ==
  /\ pc = "await_compare"
  /\ \E reply \in Replies :
       LET result == compare_chunk(Head(inflight), reply) IN
       IF result.ok
       THEN /\ chunk_analyses' = Append(chunk_analyses, section_entry(i_sec, result))
            /\ i_sec' = i_sec + 1
            /\ UNCHANGED failed
       ELSE /\ failed' = failed \cup {[section |-> i_sec + 1, exc |-> result.exc]}
            /\ UNCHANGED <<chunk_analyses, i_sec>>
  /\ inflight' = Tail(inflight)
  /\ pc' = "sections"
  /\ UNCHANGED <<dns_pdfs, cb_data, i_cb, fy_chunks, max_chunks, calls,
                 output, files, exception>>
  /\ UNCHANGED chunk_vars
  /\ UNCHANGED other_vars

\* lines 118-122 and 209-220: the service answers or fails; the result, or
\* the error placeholder, is appended and the loop goes on
ReturnCompare ==
  /\ pc = "await_compare"
  /\ \E reply \in Replies :
       LET result == compare_chunk(Head(inflight), reply) IN
       /\ chunk_analyses' = Append(chunk_analyses, section_entry(i_sec, result))
       /\ failed' = IF result.ok THEN failed
                    ELSE failed \cup {[section |-> i_sec + 1, exc |-> result.exc]}
  /\ inflight' = Tail(inflight)
  /\ i_sec' = i_sec + 1
  /\ pc' = "sections"
  /\ UNCHANGED <<dns_pdfs, cb_data, i_cb, fy_chunks, max_chunks, calls,
                 output, files, exception>>
  /\ UNCHANGED chunk_vars
  /\ UNCHANGED other_vars

\* lines 222-224 and 177: the loop is over; the synthesis prompt is sent
IssueSynthesis ==
  /\ pc = "sections"
  /\ ~in_range(i_sec, max_chunks)
  /\ inflight' = Append(inflight, synthesis_request(cb_num, chunk_analyses))
  /\ calls' = Append(calls, [kind |-> "synthesis", cb |-> cb_num])
  /\ pc' = "await_synthesis"
  /\ UNCHANGED <<dns_pdfs, cb_data, i_cb, fy_chunks, max_chunks, i_sec,
                 chunk_analyses, output, files, exception, failed>>
  /\ UNCHANGED chunk_vars
  /\ UNCHANGED other_vars

\* faulty variant: a failed synthesis is caught and the section analyses are written
ReturnSynthesis_partial ==
  /\ pc = "await_synthesis"
  /\ \E reply \in Replies :
       LET result == synthesize_comparisons(Head(inflight), reply) IN
       IF result.ok
       THEN /\ output' = result.value
            /\ UNCHANGED exception
       ELSE /\ exception' = result.exc
            /\ output' = chunk_analyses
  /\ pc' = "write"
  /\ inflight' = Tail(inflight)
  /\ UNCHANGED <<dns_pdfs, cb_data, i_cb, fy_chunks, max_chunks, i_sec,
                 chunk_analyses, calls, files, failed>>
  /\ UNCHANGED chunk_vars
  /\ UNCHANGED other_vars

\* lines 177-181, 224-226 and 241: the synthesis returns its text to run, or
\* its exception leaves analyze_multi_year_chunked and run, which catch nothing
ReturnSynthesis ==
  /\ pc = "await_synthesis"
  /\ \E reply \in Replies :
       LET result == synthesize_comparisons(Head(inflight), reply) IN
       IF result.ok
       THEN /\ output' = result.value
            /\ pc' = "write"
            /\ UNCHANGED exception
       ELSE /\ exception' = result.exc
            /\ pc' = "raised"
            /\ UNCHANGED output
  /\ inflight' = Tail(inflight)
  /\ UNCHANGED <<dns_pdfs, cb_data, i_cb, fy_chunks, max_chunks, i_sec,
                 chunk_analyses, calls, files, failed>>
  /\ UNCHANGED chunk_vars
  /\ UNCHANGED other_vars

\* lines 248-252: the report is written and the loop takes the next board
WriteFile ==
  /\ pc = "write"
  /\ files' = [n \in DOMAIN files \cup {filename(cb_num)} |->
                 IF n = filename(cb_num) THEN output ELSE files[n]]
  /\ i_cb' = i_cb + 1
  /\ fy_chunks' = NoChunks
  /\ max_chunks' = 0
  /\ i_sec' = 0
  /\ chunk_analyses' = <<>>
  /\ output' = "none"
  /\ failed' = {}
  /\ pc' = "loop"
  /\ UNCHANGED <<dns_pdfs, cb_data, inflight, calls, exception>>
  /\ UNCHANGED chunk_vars
  /\ UNCHANGED other_vars

Next ==
  \/ RunStart
  \/ AnalyzeStart
  \/ RunEnd
  \/ IssueCompare
  \/ ReturnCompare
  \/ IssueSynthesis
  \/ ReturnSynthesis
  \/ WriteFile

Spec == Init /\ [][Next]_vars

\* the chunker specification and the pipeline specification side by side
InitBoth == InitChunk \/ Init

NextBoth == NextChunk \/ Next

SpecBoth == InitBoth /\ [][NextBoth]_vars

\* -------------------------------------------- pipeline: claim vocabulary
YearSet == {"FY2024", "FY2025", "FY2026"}

\* the chunks of the texts of the k-th board of cb_data, computed anew
ChunksOf(k, y) == chunk_text(cb_data[k].statements[y], CHUNK_SIZE)

\* the largest of the three chunk counts of the k-th board
SectionCount(k) == Max({Len(ChunksOf(k, y)) : y \in YearSet})

\* the requests of one kind posted for the k-th board, in order
CallsOf(k, kind) ==
  SelectSeq(calls, LAMBDA r : r.kind = kind /\ r.cb = cb_data[k].cb_num)

\* analyze_multi_year_chunked has gone past its section loop for the board
\* the loop of run is at
PastSections == pc \in {"await_synthesis", "write", "raised"}

\* the k-th board has been through all its section comparisons
Compared(k) == k <= i_cb \/ (k = i_cb + 1 /\ PastSections)

\* the error placeholder of section number n for exception exc
Placeholder(n, exc) == [section |-> n, analysis |-> [error |-> exc]]

\* C4: for every board the aligned section count is the largest of the three
\* chunk counts, and compare_chunk is called once per aligned index
\* 0..count-1, in increasing order (section numbers 1, 2, ..., count).
C4_OneCallPerAlignedIndex ==
  /\ pc \in {"sections", "await_compare", "await_synthesis", "write", "raised"}
       => max_chunks = SectionCount(i_cb + 1)
  /\ \A k \in 1..Len(cb_data) :
       LET cs == CallsOf(k, "compare") IN
       /\ \A j \in 1..Len(cs) :
            cs[j].section_number = j /\ cs[j].total = SectionCount(k)
       /\ Len(cs) <= SectionCount(k)
       /\ Compared(k) => Len(cs) = SectionCount(k)

\* a board whose three texts give different chunk counts, the largest of them
\* 3 and not the first, has been through its three comparisons
C4_Witness ==
  /\ pc = "await_synthesis"
  /\ max_chunks = 3
  /\ Len(fy_chunks["FY2024"]) = 1
  /\ Len(CallsOf(i_cb + 1, "compare")) = 3

C6_FailedSectionPlaceholder ==
  /\ \A f \in failed :
       /\ f.section <= Len(chunk_analyses)
       /\ chunk_analyses[f.section] = Placeholder(f.section, f.exc)
  /\ (PastSections /\ failed # {}) =>
       /\ Len(CallsOf(i_cb + 1, "compare")) = SectionCount(i_cb + 1)
       /\ Len(CallsOf(i_cb + 1, "synthesis")) = 1
  /\ (pc = "await_synthesis") =>
       \A f \in failed :
         Head(inflight).analyses[f.section] = Placeholder(f.section, f.exc)

\* the second of three sections failed on the transport, the third was still
\* compared, and the synthesis request holding the placeholder is posted
C6_Witness ==
  /\ pc = "await_synthesis"
  /\ max_chunks = 3
  /\ [section |-> 2, exc |-> "ConnectionError"] \in failed
  /\ Len(CallsOf(i_cb + 1, "compare")) = 3
  /\ Head(inflight).analyses[2] = Placeholder(2, "ConnectionError")
  /\ "error" \notin DOMAIN Head(inflight).analyses[3].analysis

\* C7 (as stated): generated text that is not the expected structure is never
\* stored as a section's analysis; the entry is the error placeholder.
C7_UnparseableTextNeverStored ==
  \A k \in 1..Len(chunk_analyses) :
    LET a == chunk_analyses[k].analysis IN
    "wellformed" \in DOMAIN a => a.wellformed

\* C8: for every board processed synthesize_comparisons is called once, after
\* every section comparison of the board has returned a result or a
\* placeholder, and no compare_chunk call of the board follows it.
C8_SynthesisOnceAfterSections ==
  /\ \A k \in 1..Len(cb_data) :
       /\ Len(CallsOf(k, "synthesis")) = (IF Compared(k) THEN 1 ELSE 0)
       /\ \A a, b \in 1..Len(calls) :
            (calls[a].cb = cb_data[k].cb_num /\ calls[b].cb = cb_data[k].cb_num
             /\ calls[a].kind = "synthesis" /\ calls[b].kind = "compare") => b < a
  /\ pc = "await_synthesis" =>
       /\ Len(inflight) = 1
       /\ Len(Head(inflight).analyses) = SectionCount(i_cb + 1)
       /\ Len(CallsOf(i_cb + 1, "compare")) = SectionCount(i_cb + 1)

\* the second board's synthesis is posted after the first board, of three
\* sections, was compared, synthesized and written
C8_Witness ==
  /\ pc = "await_synthesis"
  /\ i_cb = 1
  /\ Len(CallsOf(1, "compare")) = 3
  /\ Len(CallsOf(1, "synthesis")) = 1
  /\ Len(CallsOf(2, "synthesis")) = 1

\* C9: when the synthesis call of a board fails, no file is written for that
\* board, neither a report nor the section analyses, and the run ends with
\* the exception.
C9_FailedSynthesisWritesNothing ==
  /\ exception # "none" =>
       /\ pc = "raised"
       /\ filename(cb_num) \notin DOMAIN files
  /\ \A n \in DOMAIN files :
       /\ "generated_for" \in DOMAIN files[n]
       /\ \E k \in 1..i_cb : n = filename(cb_data[k].cb_num)

\* the synthesis of the second board failed after section analyses were
\* collected; only the first board's file exists
C9_Witness ==
  /\ pc = "raised"
  /\ exception = "HTTPError"
  /\ i_cb = 1
  /\ Len(chunk_analyses) >= 1
  /\ DOMAIN files = {filename(cb_data[1].cb_num)}

\* C10 (as stated): a board whose synthesis fails does not halt the run: when
\* run has stopped, every eligible board (of the first five) has been taken
\* through its comparisons and its synthesis.
C10_FailedBoardDoesNotHalt ==
  pc \in {"done", "raised"} =>
    \A k \in 1..Len(cb_data) :
      k <= 5 => Len(CallsOf(k, "synthesis")) = 1

\* the digits of a fiscal year
YearDigits(y) ==
  CASE y = "FY2024" -> "2024" [] y = "FY2025" -> "2025" [] y = "FY2026" -> "2026"

\* some stored row of board b has a url naming the fiscal year y
Covers(b, y) ==
  \E r \in 1..Len(dns_pdfs[b]) :
    \E k \in 1..Len(dns_pdfs[b][r].pdf_url) :
      dns_pdfs[b][r].pdf_url[k] \in {y, YearDigits(y)}

CoversAll(b) == \A y \in YearSet : Covers(b, y)

\* C11: a board is handed to the pipeline if and only if its stored rows
\* cover FY2024, FY2025 and FY2026; no comparator or synthesis call is ever
\* made and no file written for a board covering fewer years, and every
\* board handed over carries exactly the keys FY2024, FY2025, FY2026.
C11_OnlyCompleteBoards ==
  /\ pc # "start" =>
       /\ \A b \in 1..Len(dns_pdfs) :
            (\E k \in 1..Len(cb_data) : cb_data[k].cb_num = b) <=> CoversAll(b)
       /\ \A k \in 1..Len(cb_data) : DOMAIN cb_data[k].statements = YearSet
  /\ \A j \in 1..Len(calls) : CoversAll(calls[j].cb)
  /\ \A b \in 1..Len(dns_pdfs) :
       filename(b) \in DOMAIN files => CoversAll(b)

\* the run is over: the second board, with three rows of two years only,
\* was left out, and the boards before and after it were processed
C11_Witness ==
  /\ pc = "done"
  /\ Len(dns_pdfs) = 3
  /\ Len(dns_pdfs[2]) = 3
  /\ ~CoversAll(2)
  /\ Len(cb_data) = 2
  /\ \A j \in 1..Len(calls) : calls[j].cb # 2
  /\ DOMAIN files = {filename(1), filename(3)}

\* C12: at most one remote generation call is outstanding at any time: a
\* request is posted only when the previous one has returned or failed.
C12_OneCallOutstanding ==
  /\ Len(inflight) <= 1
  /\ inflight # <<>> <=> pc \in {"await_compare", "await_synthesis"}

\* a request is outstanding after earlier requests of the run were answered
C12_Witness ==
  /\ Len(inflight) = 1
  /\ Len(calls) >= 4
  /\ Head(inflight).kind = "compare"
  /\ i_cb = 1

\* C13: within one board the three texts are chunked and the aligned section
\* count is fixed before the first comparator call is posted, and neither the
\* chunks nor the count change while the sections are compared.
C13_ChunkedBeforeCompared ==
  [][ /\ (Len(calls') > Len(calls) /\ calls'[Len(calls')].kind = "compare") =>
           /\ \A y \in YearSet : fy_chunks[y] = ChunksOf(i_cb + 1, y)
           /\ max_chunks = SectionCount(i_cb + 1)
      /\ pc \in {"sections", "await_compare"} =>
           (max_chunks' = max_chunks /\ fy_chunks' = fy_chunks) ]_vars

\* the first comparator call of a board of three sections is outstanding
C13_Witness ==
  /\ pc = "await_compare"
  /\ i_sec = 0
  /\ max_chunks = 3
  /\ Len(fy_chunks["FY2024"]) = 3
  /\ Len(fy_chunks["FY2025"]) = 2
  /\ Len(fy_chunks["FY2026"]) = 1

\* C14: the list handed to the synthesizer has as many entries as the aligned
\* section count, and its k-th entry (from 1) carries section number k, be it
\* an analysis or an error placeholder.
C14_SectionListIndexed ==
  /\ \A k \in 1..Len(chunk_analyses) : chunk_analyses[k].section = k
  /\ pc = "await_synthesis" =>
       LET given == Head(inflight).analyses IN
       /\ Len(given) = max_chunks
       /\ \A k \in 1..Len(given) : given[k].section = k

\* a list of three entries, a placeholder among analyses, is handed over
C14_Witness ==
  /\ pc = "await_synthesis"
  /\ Len(Head(inflight).analyses) = 3
  /\ "error" \in DOMAIN Head(inflight).analyses[1].analysis
  /\ "error" \notin DOMAIN Head(inflight).analyses[2].analysis

\* the file name n holds the board number
NamesBoard(n, cb) == \E i \in 1..Len(n) : n[i] = ToString(cb)

\* C16: for every board whose synthesis call returns, run writes one report
\* whose file name holds the board's cb_number, after the synthesis has
\* returned and before any request for the next board is posted; its content
\* is what the synthesis returned, not a section result.
C16_ReportPerBoard ==
  /\ [](/\ Cardinality(DOMAIN files) = i_cb
        /\ \A k \in 1..i_cb :
             \E n \in DOMAIN files :
               /\ NamesBoard(n, cb_data[k].cb_num)
               /\ files[n].generated_for = "synthesis"
               /\ files[n].cb = cb_data[k].cb_num
        /\ \A j \in 1..Len(calls) : \A k \in 1..Len(cb_data) :
             calls[j].cb = cb_data[k].cb_num => k <= i_cb + 1
        /\ pc = "write" =>
             /\ inflight = <<>>
             /\ output.generated_for = "synthesis"
             /\ output.cb = cb_num)
  /\ [][(DOMAIN files' # DOMAIN files
           \/ \E n \in DOMAIN files : files'[n] # files[n]) =>
          /\ pc = "write"
          /\ \E n \in DOMAIN files' \ DOMAIN files :
               /\ DOMAIN files' = DOMAIN files \cup {n}
               /\ NamesBoard(n, cb_num)
               /\ files'[n] = output
          /\ \A n \in DOMAIN files : files'[n] = files[n]
          /\ Len(calls') = Len(calls)]_vars

\* the reports of two boards are written; the third board is being compared
C16_Witness ==
  /\ i_cb = 2
  /\ pc = "await_compare"
  /\ Cardinality(DOMAIN files) = 2
  /\ \A n \in DOMAIN files : files[n].generated_for = "synthesis"

\* an entry of a section list is an error placeholder or the text generated
\* for a comparator call of board cb
OwnEntry(entry, cb) ==
  "error" \notin DOMAIN entry.analysis =>
    (entry.analysis.generated_for = "compare" /\ entry.analysis.cb = cb)

\* C17: nothing is shared across boards: the accumulator is empty when a
\* board's section loop starts, the comparator calls of a board carry chunks
\* of that board's own texts, and the synthesis input of a board holds only
\* results of that board's own comparator calls.
C17_NothingSharedAcrossBoards ==
  /\ (pc = "sections" /\ i_sec = 0) => chunk_analyses = <<>>
  /\ pc \in {"sections", "await_compare", "await_synthesis"} =>
       /\ \A y \in YearSet : fy_chunks[y] = ChunksOf(i_cb + 1, y)
       /\ Len(chunk_analyses) <= Len(CallsOf(i_cb + 1, "compare"))
       /\ \A e \in 1..Len(chunk_analyses) : OwnEntry(chunk_analyses[e], cb_num)
  /\ \A k \in 1..Len(cb_data) :
       LET cs == CallsOf(k, "compare") IN
       \A j \in 1..Len(cs) : \A y \in YearSet :
         \/ cs[j][y] = NoContent
         \/ \E i \in 1..Len(ChunksOf(k, y)) : cs[j][y] = ChunksOf(k, y)[i]
  /\ pc = "await_synthesis" =>
       /\ Head(inflight).cb = cb_num
       /\ Len(Head(inflight).analyses) = Len(CallsOf(i_cb + 1, "compare"))
       /\ \A e \in 1..Len(Head(inflight).analyses) :
            OwnEntry(Head(inflight).analyses[e], cb_num)

\* the synthesis request of the second board is posted after a first board
\* of three sections was processed
C17_Witness ==
  /\ pc = "await_synthesis"
  /\ i_cb = 1
  /\ Len(CallsOf(1, "compare")) = 3
  /\ Len(Head(inflight).analyses) = 1
  /\ Head(inflight).cb = cb_data[2].cb_num

\* C18: nothing is retried: for each board each aligned section is sent to
\* the generation service at most once and the synthesis prompt at most
\* once, also after a call failed.
C18_NoRetry ==
  \A a, b \in 1..Len(calls) :
    (a < b /\ calls[a].kind = calls[b].kind /\ calls[a].cb = calls[b].cb) =>
      /\ calls[a].kind = "compare"
      /\ calls[a].section_number # calls[b].section_number

\* a comparator call and the synthesis call of a board failed and the run
\* ended with one request per section and one synthesis request
C18_Witness ==
  /\ pc = "raised"
  /\ max_chunks >= 2
  /\ failed # {}
  /\ Len(calls) = max_chunks + 1

\* each of the three texts of the k-th board is at most CHUNK_SIZE - margin
\* characters long
TextsFit(k, margin) ==
  \A y \in YearSet : PyLen(cb_data[k].statements[y]) + margin <= CHUNK_SIZE

\* the k-th board goes through the pipeline as one aligned section: one chunk
\* per text, one comparator call, then one synthesis call, and one report
\* once its run is over
OneSectionRun(k) ==
  /\ (k = i_cb + 1 /\ pc \in {"sections", "await_compare", "await_synthesis",
                              "write", "raised"}) =>
       /\ \A y \in YearSet : Len(fy_chunks[y]) = 1
       /\ max_chunks = 1
  /\ Len(CallsOf(k, "compare")) <= 1
  /\ Compared(k) =>
       /\ Len(CallsOf(k, "compare")) = 1
       /\ Len(CallsOf(k, "synthesis")) = 1
  /\ k <= i_cb =>
       Cardinality({n \in DOMAIN files : NamesBoard(n, cb_data[k].cb_num)}) = 1

\* C15 (as stated): when each of a board's three texts fits within the chunk
\* budget, each text yields one chunk, the aligned section count is 1, one
\* comparator call is made, then one synthesis call, yielding one report.
C15_FittingTextsOneSection ==
  \A k \in 1..Len(cb_data) : TextsFit(k, 0) => OneSectionRun(k)

\* C15 (amended): when each of a board's three texts together with one
\* two-character separator fits within the chunk budget (len(text) + 2 <=
\* budget), each text yields one chunk, the aligned section count is 1, one
\* comparator call is made, then one synthesis call, and one report is
\* written when the synthesis call returns.
C15_FittingWithSeparatorOneSection ==
  \A k \in 1..Len(cb_data) : TextsFit(k, 2) => OneSectionRun(k)

\* the board with the texts "a\n\nb", "a\n\nb\n\nc", "a" has been processed:
\* one comparator call, one synthesis call, one report
C15_Witness ==
  /\ i_cb >= 1
  /\ cb_data[1].statements["FY2024"] = <<"a", "\n", "\n", "b">>
  /\ cb_data[1].statements["FY2025"] = <<"a", "\n", "\n", "b", "\n", "\n", "c">>
  /\ cb_data[1].statements["FY2026"] = <<"a">>
  /\ Len(CallsOf(1, "compare")) = 1
  /\ Len(CallsOf(1, "synthesis")) = 1
  /\ DOMAIN files = {filename(cb_data[1].cb_num)}

\* the boards run may process: the first five of cb_data
FirstFive == 1..Min({5, Len(cb_data)})

\* C22: run processes only the first 5 eligible boards, in ascending
\* cb_number order: no comparator call, synthesis call or output file is
\* ever produced for a sixth or later eligible board.
C22_FirstFiveOnly ==
  /\ i_cb <= 5
  /\ pc # "start" =>
       /\ {cb_data[k].cb_num : k \in 1..Len(cb_data)}
            = {b \in DOMAIN dns_pdfs : CoversAll(b)}
       /\ \A k, l \in 1..Len(cb_data) :
            k < l => cb_data[k].cb_num < cb_data[l].cb_num
  /\ \A j \in 1..Len(calls) :
       \E k \in FirstFive : calls[j].cb = cb_data[k].cb_num
  /\ \A j, l \in 1..Len(calls) : j < l => calls[j].cb <= calls[l].cb
  /\ DOMAIN files = {filename(cb_data[k].cb_num) : k \in 1..i_cb}
  /\ \A n \in DOMAIN files : \E k \in FirstFive : n = filename(cb_data[k].cb_num)

\* run has ended with six eligible boards out of seven and five reports
C22_Witness ==
  /\ pc = "done"
  /\ Len(cb_data) = 6
  /\ Len(dns_pdfs) = 7
  /\ Cardinality(DOMAIN files) = 5
  /\ \A j \in 1..Len(calls) : calls[j].cb # cb_data[6].cb_num

\* --------------------------------------------- chunker: claim vocabulary
\* '\n\n'.join(chunks): the chunks with the paragraph separator restored
RECURSIVE Rejoin(_)
Rejoin(chunks) ==
  IF chunks = <<>> THEN <<>>
  ELSE IF Len(chunks) = 1 THEN chunks[1]
  ELSE chunks[1] \o Sep \o Rejoin(Tail(chunks))

\* the paragraphs of a text, each without its edge whitespace
StrippedParagraphs(text) ==
  LET ps == split(text) IN [i \in 1..Len(ps) |-> strip(ps[i])]

\* the paragraphs that hold something else than whitespace, stripped, in order
NonBlankParagraphs(text) ==
  SelectSeq(StrippedParagraphs(text), LAMBDA p : p # <<>>)

\* paragraphs lo..hi joined by the separator
RECURSIVE JoinRange(_, _, _)
JoinRange(ps, lo, hi) ==
  IF lo > hi THEN <<>>
  ELSE IF lo = hi THEN ps[lo]
  ELSE ps[lo] \o Sep \o JoinRange(ps, lo + 1, hi)

\* cuts is the set of paragraph indices after which a chunk ends: paragraph i
\* then lies in chunk GroupOf, which spans paragraphs GroupLo..GroupHi
GroupOf(cuts, i) == 1 + Cardinality({c \in cuts : c < i})
GroupLo(cuts, i) == Max({1} \cup {c + 1 : c \in {d \in cuts : d < i}})
GroupHi(cuts, n, i) == Min({n} \cup {c \in cuts : c >= i})

\* the chunks are the paragraphs ps cut at whole-paragraph boundaries, every
\* chunk the strip() of its paragraphs joined, a paragraph longer than the
\* budget alone in its chunk
WholeParagraphs(ps, chunks, chunk_size) ==
  LET n == Len(ps) IN
  \E cuts \in SUBSET (1..(n - 1)) :
    /\ Cardinality(cuts) + 1 = Len(chunks)
    /\ \A i \in 1..n :
         /\ chunks[GroupOf(cuts, i)] =
              strip(JoinRange(ps, GroupLo(cuts, i), GroupHi(cuts, n, i)))
         /\ PyLen(ps[i]) > chunk_size => GroupLo(cuts, i) = GroupHi(cuts, n, i)

\* ------------------------------------------------------- chunker: claims
\* C1 (as stated): the chunks, rejoined with the double-newline separator,
\* reproduce the paragraphs of the text (the pieces of split('\n\n')) in
\* order, none lost and none duplicated, up to the edge whitespace of the
\* text and of each paragraph.
C1_AllParagraphsReproduced ==
  c_pc = "returned" =>
    StrippedParagraphs(strip(Rejoin(c_chunks))) = StrippedParagraphs(strip(c_text))

\* C1 (amended): the chunks, rejoined with the double-newline separator,
\* reproduce the non-blank paragraphs of the text in order, none lost and
\* none duplicated, each up to its edge whitespace; a whitespace-only
\* paragraph next to a chunk boundary may be dropped.
C1_NonBlankParagraphsReproduced ==
  c_pc = "returned" =>
    NonBlankParagraphs(Rejoin(c_chunks)) = NonBlankParagraphs(c_text)

\* a text of several non-blank paragraphs was cut into several chunks and an
\* empty paragraph between them was dropped
C1_Witness ==
  /\ c_pc = "returned"
  /\ Len(c_chunks) >= 2
  /\ Len(NonBlankParagraphs(c_text)) >= 2
  /\ Len(split(Rejoin(c_chunks))) < Len(split(strip(c_text)))

\* C2: for every budget >= 1 every paragraph lies whole inside exactly one
\* chunk (chunks end only between paragraphs), and a paragraph longer than
\* the budget is a chunk of its own, whole (strip() takes edge whitespace only).
C2_NoParagraphSplit ==
  (c_pc = "returned" /\ c_size >= 1) =>
    WholeParagraphs(split(c_text), c_chunks, c_size)

\* a text of several paragraphs, one of them longer than the budget and
\* returned whole as a chunk
C2_Witness ==
  /\ c_pc = "returned"
  /\ c_size >= 1
  /\ Len(c_chunks) >= 2
  /\ \A i \in 1..Len(c_chunks) : c_chunks[i] # <<>>
  /\ \E i \in 1..Len(split(c_text)) :
       /\ PyLen(split(c_text)[i]) > c_size
       /\ \E j \in 1..Len(c_chunks) : c_chunks[j] = split(c_text)[i]

\* C3 (as stated): the empty text yields zero chunks, and only the empty
\* text yields zero chunks.
C3_EmptyTextZeroChunks ==
  c_pc = "returned" =>
    /\ c_text = <<>> => c_chunks = <<>>
    /\ c_chunks = <<>> => c_text = <<>>
\* the paragraph indices after which the buffer is closed when a buffer is
\* closed exactly where the next paragraph and its two-character separator
\* would take it over the budget (buffer_len counts the separators kept in it)
RECURSIVE ClosePoints(_, _, _, _)
ClosePoints(ps, k, buffer_len, chunk_size) ==
  IF k > Len(ps) THEN {}
  ELSE IF buffer_len + PyLen(ps[k]) + 2 <= chunk_size
       THEN ClosePoints(ps, k + 1, buffer_len + PyLen(ps[k]) + 2, chunk_size)
       ELSE (IF k > 1 THEN {k - 1} ELSE {})
              \cup ClosePoints(ps, k + 1, PyLen(ps[k]) + 2, chunk_size)

\* C19: chunk_text closes the running buffer exactly when appending the next
\* paragraph plus its two-character separator would exceed the budget; so a
\* chunk of two or more paragraphs is at most the budget long, and a chunk
\* longer than the budget is a single paragraph.
C19_ClosedWhenBudgetExceeded ==
  c_pc = "returned" =>
    LET ps == split(c_text)
        n == Len(ps)
        cuts == ClosePoints(ps, 1, 0, c_size)
    IN /\ Len(c_chunks) = Cardinality(cuts) + 1
       /\ \A i \in 1..n :
            LET lo == GroupLo(cuts, i)
                hi == GroupHi(cuts, n, i)
                chunk == c_chunks[GroupOf(cuts, i)]
            IN /\ chunk = strip(JoinRange(ps, lo, hi))
               /\ lo < hi => PyLen(JoinRange(ps, lo, hi)) + 2 <= c_size
               /\ lo < hi => PyLen(chunk) <= c_size
               /\ PyLen(chunk) > c_size => lo = hi

\* the buffer was closed once, and one of the two chunks holds two paragraphs
C19_Witness ==
  /\ c_pc = "returned"
  /\ Len(c_chunks) = 2
  /\ Len(NonBlankParagraphs(c_text)) = 2
  /\ LET ps == split(c_text)
         cuts == ClosePoints(ps, 1, 0, c_size)
     IN \E i \in 1..Len(ps) : GroupLo(cuts, i) < GroupHi(cuts, Len(ps), i)

\* C20 (as stated): every chunk chunk_text returns is a non-empty string
\* holding the text of at least one paragraph; no empty or whitespace-only
\* chunk is returned for any text and budget.
C20_NoEmptyChunk ==
  c_pc = "returned" =>
    \A i \in 1..Len(c_chunks) : strip(c_chunks[i]) # <<>>

\* C21: chunk_text returns at least one chunk for every text and budget; so
\* the aligned section count is at least 1, and analyze_multi_year_chunked
\* issues at least one comparator call and hands a non-empty section list
\* to the synthesizer for every board, one with three empty texts included.
C21_AtLeastOneChunkAndSection ==
  /\ c_pc = "returned" => Len(c_chunks) >= 1
  /\ pc \in {"sections", "await_compare", "await_synthesis", "write", "raised"} =>
       /\ \A y \in YearSet : Len(fy_chunks[y]) >= 1
       /\ max_chunks >= 1
  /\ \A k \in 1..Len(cb_data) :
       /\ Compared(k) => Len(CallsOf(k, "compare")) >= 1
       /\ \A y \in YearSet : Len(ChunksOf(k, y)) >= 1
  /\ pc = "await_synthesis" =>
       /\ Head(inflight).kind = "synthesis"
       /\ Len(Head(inflight).analyses) >= 1

\* the synthesis request of a board with three empty texts is outstanding
\* and holds one section
C21_Witness ==
  /\ pc = "await_synthesis"
  /\ \A y \in YearSet : cb_data[i_cb + 1].statements[y] = <<>>
  /\ Len(CallsOf(i_cb + 1, "compare")) = 1
  /\ Len(Head(inflight).analyses) = 1

\* ------------------------------------------------------------- LinkParser
\* dict(attrs).get("href"): the value of the last pair named name, None if
\* there is none
attr_get(attrs, name) ==
  LET named == {k \in 1..Len(attrs) : attrs[k][1] = name} IN
  IF named = {} THEN None ELSE attrs[Max(named)][2]

\* Python's truth value of a str or None
Truthy(v) == ~v.none /\ v.s # <<>>

\* "".join(pieces)
RECURSIVE join(_)
join(pieces) ==
  IF pieces = <<>> THEN <<>> ELSE Head(pieces) \o join(Tail(pieces))

\* the tags, attribute lists and data the parser is fed
Tags == {"a", "p"}

AttrLists ==
  { <<>>,
    << <<"href", None>> >>,
    << <<"href", Str(<<>>)>> >>,
    << <<"href", Str(<<"u">>)>> >>,
    << <<"href", Str(<<"u">>)>>, <<"href", Str(<<"v">>)>> >> }

Datas == { <<"x">>, <<" ", "y", " ">> }

StartEvent(tag, attrs) == [type |-> "start", tag |-> tag, attrs |-> attrs, data |-> <<>>]
DataEvent(data) == [type |-> "data", tag |-> "", attrs |-> <<>>, data |-> data]
EndEvent(tag) == [type |-> "end", tag |-> tag, attrs |-> <<>>, data |-> <<>>]

\* LinkParser(), lines 52-57
InitLinks ==
  /\ ChunkIdle
  /\ RunIdle
  /\ AuditIdle
  /\ DemoIdle
  /\ LlmIdle
  /\ links = <<>>
  /\ in_a = FALSE
  /\ href = None
  /\ buf = <<>>
  /\ events = <<>>

LinkRest == <<chunk_vars, run_vars, audit_vars, demo_vars, llm_vars>>

\* handle_starttag, lines 59-65; a non-anchor tag carries an href to show it
\* is ignored
handle_starttag ==
  /\ Len(events) < MaxEvents
  /\ \E tag \in Tags :
       \E attrs \in IF tag = "a" THEN AttrLists ELSE {<< <<"href", Str(<<"u">>)>> >>} :
         /\ events' = Append(events, StartEvent(tag, attrs))
         /\ IF tag # "a"
            THEN UNCHANGED <<links, in_a, href, buf>>
            ELSE /\ href' = attr_get(attrs, "href")
                 /\ buf' = <<>>
                 /\ in_a' = TRUE
                 /\ UNCHANGED links
  /\ UNCHANGED LinkRest

\* handle_data, lines 67-69
handle_data ==
  /\ Len(events) < MaxEvents
  /\ \E data \in Datas :
       /\ events' = Append(events, DataEvent(data))
       /\ buf' = IF in_a THEN Append(buf, data) ELSE buf
  /\ UNCHANGED <<links, in_a, href>>
  /\ UNCHANGED LinkRest

\* faulty variant: the pair is appended whatever the href is
handle_endtag_any_href ==
  /\ Len(events) < MaxEvents
  /\ \E tag \in Tags :
       /\ events' = Append(events, EndEvent(tag))
       /\ IF tag # "a" \/ ~in_a
          THEN UNCHANGED <<links, in_a, href, buf>>
          ELSE LET text == strip(join(buf)) IN
               /\ links' = Append(links, <<text, href>>)
               /\ in_a' = FALSE
               /\ href' = None
               /\ buf' = <<>>
  /\ UNCHANGED LinkRest

\* handle_endtag, lines 71-79
handle_endtag ==
  /\ Len(events) < MaxEvents
  /\ \E tag \in Tags :
       /\ events' = Append(events, EndEvent(tag))
       /\ IF tag # "a" \/ ~in_a
          THEN UNCHANGED <<links, in_a, href, buf>>
          ELSE LET text == strip(join(buf)) IN
               /\ links' = IF Truthy(href) THEN Append(links, <<text, href>>)
                           ELSE links
               /\ in_a' = FALSE
               /\ href' = None
               /\ buf' = <<>>
  /\ UNCHANGED LinkRest

NextLinks == handle_starttag \/ handle_data \/ handle_endtag

SpecLinks == InitLinks /\ [][NextLinks]_vars

\* ------------------------------------------------- LinkParser: claims
IsStartA(e) == events[e].type = "start" /\ events[e].tag = "a"
IsEndA(e) == events[e].type = "end" /\ events[e].tag = "a"

\* the last <a> and the last </a> before event e, 0 if there is none
LastStart(e) == Max({0} \cup {s \in 1..(e - 1) : IsStartA(s)})
LastEnd(e) == Max({0} \cup {f \in 1..(e - 1) : IsEndA(f)})

\* the </a> events that closed an open anchor
Closing == {e \in 1..Len(events) : IsEndA(e) /\ LastStart(e) > LastEnd(e)}

\* those whose most recent <a> carried a non-empty href
Collecting ==
  {e \in Closing : Truthy(attr_get(events[LastStart(e)].attrs, "href"))}

\* the data seen after event s and before event e, concatenated
RECURSIVE DataSince(_, _)
DataSince(s, e) ==
  IF s + 1 >= e THEN <<>>
  ELSE (IF events[s + 1].type = "data" THEN events[s + 1].data ELSE <<>>)
         \o DataSince(s + 1, e)

\* C23: after any sequence of start-tag, data and end-tag events, links holds
\* one (text, href) pair, in event order, for each </a> that closed an open
\* anchor whose most recent <a> carried a non-empty href, the text being the
\* stripped concatenation of the data seen since that <a>; an </a> with no
\* open anchor adds nothing; after an </a> that closes an anchor the parser
\* is idle (_in_a false, _href None, buffer empty).
C23_LinksPerClosedAnchor ==
  /\ Len(links) = Cardinality(Collecting)
  /\ \A e \in Collecting :
       links[Cardinality({f \in Collecting : f <= e})]
         = <<strip(DataSince(LastStart(e), e)),
             attr_get(events[LastStart(e)].attrs, "href")>>
  /\ Len(events) \in Closing => (~in_a /\ href = None /\ buf = <<>>)
  /\ in_a <=> LastStart(Len(events) + 1) > LastEnd(Len(events) + 1)

\* <a href> data <a href> </a>: one pair, whose text leaves out the data seen
\* before the second <a>
C23_Witness ==
  /\ Len(events) = 4
  /\ IsStartA(1) /\ events[2].type = "data" /\ IsStartA(3) /\ IsEndA(4)
  /\ Len(links) = 1
  /\ links[1][1] = <<>>
  /\ ~in_a

\* ------------------------------------------------------------------ audit
\* A link text and an href are sequences of tokens: words, single blanks,
\* single digits, and the parts of a url.
CB_LIST_URL == <<"https://", "www.nyc.gov", "/", "site/cau/community-boards/brooklyn-boards.page">>

KEY_ITEMS ==
  {"Calendar", "Minutes", "Agendas", "Meetings", "Resolutions", "Contact",
   "Instagram", "X", "Facebook", "Youtube", "Newsletters", "By-Laws", "News",
   "Events", "Permits and Licenses"}

DigitChars == {"0", "1", "2", "3", "4", "5", "6", "7", "8", "9"}

\* str.lower() of a word of a link text
Lower(w) ==
  IF w = "Brooklyn" THEN "brooklyn" ELSE IF w = "CB" THEN "cb" ELSE w

\* int() of a run of digits
RECURSIVE int(_)
int(digits) ==
  IF digits = <<>> THEN 0
  ELSE 10 * int(SubSeq(digits, 1, Len(digits) - 1))
         + (CHOOSE v \in 0..9 : ToString(v) = digits[Len(digits)])

RECURSIVE SkipWs(_, _)
SkipWs(text, i) ==
  IF i <= Len(text) /\ text[i] \in Whitespace THEN SkipWs(text, i + 1) ELSE i

RECURSIVE DigitRun(_, _)
DigitRun(text, i) ==
  IF i <= Len(text) /\ text[i] \in DigitChars
  THEN <<text[i]>> \o DigitRun(text, i + 1)
  ELSE <<>>

\* the digits captured when Brooklyn\s*CB\s*(\d+) matches at token i,
\* ignoring case; <<>> when it does not match there
MatchAt(text, i) ==
  IF Lower(text[i]) # "brooklyn" THEN <<>>
  ELSE LET j == SkipWs(text, i + 1) IN
       IF j <= Len(text) /\ Lower(text[j]) = "cb"
       THEN DigitRun(text, SkipWs(text, j + 1))
       ELSE <<>>

\* re.search(...).group(1): the capture of the leftmost match, <<>> if none
re_search(text) ==
  LET hits == {i \in 1..Len(text) : MatchAt(text, i) # <<>>} IN
  IF hits = {} THEN <<>> ELSE MatchAt(text, Min(hits))

\* urljoin(CB_LIST_URL, href) for an absolute url or an absolute path
urljoin(base, h) ==
  IF h[1] \in {"http://", "https://"} THEN h ELSE SubSeq(base, 1, 2) \o h

\* extract_cb_links, lines 93-103: the loop over parser.links; cb_links is
\* the dict as its items in insertion order
RECURSIVE extract_loop(_, _, _)
extract_loop(parser_links, k, dict) ==
  IF k > Len(parser_links) THEN dict
  ELSE LET text == parser_links[k][1]
           h == parser_links[k][2]
           num == re_search(text)
       IN IF num = <<>> THEN extract_loop(parser_links, k + 1, dict)
          ELSE IF h = <<>> \/ h[1] = "#"
          THEN extract_loop(parser_links, k + 1, dict)
          ELSE IF \E j \in 1..Len(dict) : dict[j][1] = num
          THEN extract_loop(parser_links, k + 1, dict)
          ELSE extract_loop(parser_links, k + 1,
                            Append(dict, <<num, urljoin(CB_LIST_URL, h)>>))

extract_cb_links(parser_links) == extract_loop(parser_links, 1, <<>>)

\* faulty variant: the items are taken in insertion order
sorted_items_unsorted(items) == items

\* sorted(cb_links.items(), key=lambda x: int(x[0])): a stable sort
RECURSIVE sorted_items(_)
sorted_items(items) ==
  IF items = <<>> THEN <<>>
  ELSE LET least == Min({int(items[k][1]) : k \in 1..Len(items)})
           first == Min({k \in 1..Len(items) : int(items[k][1]) = least})
       IN <<items[first]>>
            \o sorted_items(SubSeq(items, 1, first - 1)
                              \o SubSeq(items, first + 1, Len(items)))

\* what requests.get can lead to: the transport raises, or a reply with a
\* status code arrives; html is the set of search terms its text holds
Htmls == { {}, {"calendar", "events", "event", "instagram.com", "instagram"} }

FetchReplies ==
  { [raised |-> TRUE, status |-> 0, html |-> {}],
    [raised |-> FALSE, status |-> 404, html |-> {}] }
  \cup { [raised |-> FALSE, status |-> 200, html |-> h] : h \in Htmls }

\* fetch_html, lines 82-85
fetch_html(url, reply) ==
  IF reply.raised THEN [ok |-> FALSE, exc |-> "ConnectionError"]
  ELSE IF reply.status >= 400 THEN [ok |-> FALSE, exc |-> "HTTPError"]
  ELSE [ok |-> TRUE, text |-> reply.html]

\* the terms looked for under each label, lines 113-133
Terms(item) ==
  CASE item = "Calendar" -> {"calendar"}
    [] item = "Minutes" -> {"minutes"}
    [] item = "Agendas" -> {"agenda"}
    [] item = "Meetings" -> {"meeting"}
    [] item = "Resolutions" -> {"resolution"}
    [] item = "Contact" -> {"contact"}
    [] item = "Newsletters" -> {"newsletter"}
    [] item = "By-Laws" -> {"by-laws", "bylaws", "by laws"}
    [] item = "News" -> {"news"}
    [] item = "Events" -> {"events", "event"}
    [] item = "Permits and Licenses" -> {"permit", "license"}
    [] item = "Instagram" -> {"instagram.com", "instagram"}
    [] item = "X" -> {"x.com", "twitter.com", "twitter"}
    [] item = "Facebook" -> {"facebook.com", "facebook"}
    [] item = "Youtube" -> {"youtube.com", "youtu.be", "youtube"}

\* detect_features, lines 108-139
detect_features(html) ==
  [item \in KEY_ITEMS |-> \E term \in Terms(item) : term \in html]

\* the (text, href) pairs the parser may have collected from the list page
PageLinkKinds ==
  { << <<"Brooklyn", " ", "CB", " ", "1">>, <<"/", "cb1">> >>,
    << <<"Brooklyn", " ", "CB", " ", "1">>, <<"http://", "other.org">> >>,
    << <<"brooklyn", " ", "cb", "2">>, <<"/", "cb2">> >>,
    << <<"brooklyn", " ", "cb", "2">>, <<"#", "top">> >>,
    << <<"Visit", " ", "Brooklyn", "CB", "1", "0">>, <<"https://", "cb10.org">> >>,
    << <<"Brooklyn", " ", "CB", " ", "0", "1">>, <<"/", "cb01">> >>,
    << <<"Queens", " ", "CB", " ", "1">>, <<"/", "q1">> >> }

RECURSIVE PagesOfLen(_)
PagesOfLen(n) ==
  IF n = 0 THEN {<<>>}
  ELSE {Append(p, l) : p \in PagesOfLen(n - 1), l \in PageLinkKinds}

Pages == UNION {PagesOfLen(n) : n \in 0..MaxPageLinks}

InitAudit ==
  /\ ChunkIdle
  /\ RunIdle
  /\ LinkIdle
  /\ DemoIdle
  /\ LlmIdle
  /\ a_pc = "start"
  /\ page_links \in Pages
  /\ cb_links = <<>>
  /\ a_order = <<>>
  /\ a_i = 0
  /\ results = <<>>
  /\ fetched = <<>>
  /\ written = <<>>
  /\ a_exception = "none"

AuditRest == <<chunk_vars, run_vars, link_vars, demo_vars, llm_vars>>

\* audit, lines 152-157, and extract_cb_links: the list page is fetched and
\* its links are sifted; a failed fetch leaves audit
AuditStart ==
  /\ a_pc = "start"
  /\ \E reply \in FetchReplies :
       LET page == fetch_html(CB_LIST_URL, reply) IN
       IF page.ok
       THEN /\ cb_links' = extract_cb_links(page_links)
            /\ a_order' = sorted_items(cb_links')
            /\ a_pc' = "loop"
            /\ UNCHANGED a_exception
       ELSE /\ a_exception' = page.exc
            /\ a_pc' = "raised"
            /\ UNCHANGED <<cb_links, a_order>>
  /\ UNCHANGED <<page_links, a_i, results, fetched, written>>
  /\ UNCHANGED AuditRest

\* lines 158-162: the next site is requested
IssueFetch ==
  /\ a_pc = "loop"
  /\ a_i < Len(a_order)
  /\ fetched' = Append(fetched, [url |-> a_order[a_i + 1][2], outcome |-> "pending"])
  /\ a_pc' = "fetching"
  /\ UNCHANGED <<page_links, cb_links, a_order, a_i, results, written,
                 a_exception>>
  /\ UNCHANGED AuditRest

\* faulty variant: a failed fetch ends the loop
ReturnFetch_abort ==
  /\ a_pc = "fetching"
  /\ \E reply \in FetchReplies :
       LET num == a_order[a_i + 1][1]
           url == a_order[a_i + 1][2]
           html == fetch_html(url, reply)
       IN IF html.ok
          THEN /\ results' = Append(results,
                        [cb_number |-> num, url |-> url, status |-> "ok",
                         features |-> detect_features(html.text)])
               /\ a_i' = a_i + 1
               /\ fetched' = [fetched EXCEPT ![Len(fetched)].outcome = "ok"]
          ELSE /\ results' = Append(results,
                        [cb_number |-> num, url |-> url, status |-> "error",
                         error |-> html.exc])
               /\ a_i' = Len(a_order)
               /\ fetched' = [fetched EXCEPT ![Len(fetched)].outcome = "failed"]
  /\ a_pc' = "loop"
  /\ UNCHANGED <<page_links, cb_links, a_order, written, a_exception>>
  /\ UNCHANGED AuditRest

\* lines 160-169: the site answers or the fetch fails; the record is appended
ReturnFetch ==
  /\ a_pc = "fetching"
  /\ \E reply \in FetchReplies :
       LET num == a_order[a_i + 1][1]
           url == a_order[a_i + 1][2]
           html == fetch_html(url, reply)
       IN /\ results' = Append(results,
                 IF html.ok
                 THEN [cb_number |-> num, url |-> url, status |-> "ok",
                       features |-> detect_features(html.text)]
                 ELSE [cb_number |-> num, url |-> url, status |-> "error",
                       error |-> html.exc])
          /\ fetched' = [fetched EXCEPT ![Len(fetched)].outcome =
                           IF html.ok THEN "ok" ELSE "failed"]
  /\ a_i' = a_i + 1
  /\ a_pc' = "loop"
  /\ UNCHANGED <<page_links, cb_links, a_order, written, a_exception>>
  /\ UNCHANGED AuditRest

\* lines 171-174: the loop is over and the results are written
WriteResults ==
  /\ a_pc = "loop"
  /\ a_i >= Len(a_order)
  /\ written' = Append(written, [source |-> CB_LIST_URL, results |-> results])
  /\ a_pc' = "done"
  /\ UNCHANGED <<page_links, cb_links, a_order, a_i, results, fetched,
                 a_exception>>
  /\ UNCHANGED AuditRest

NextAudit == AuditStart \/ IssueFetch \/ ReturnFetch \/ WriteResults

SpecAudit == InitAudit /\ [][NextAudit]_vars

\* ---------------------------------------------------------- audit: claims
\* C24: audit produces one result record per discovered CB link, in
\* ascending numeric CB order; a site whose fetch fails gets a record with
\* status "error", the failure text and no features; a site whose fetch
\* succeeds gets status "ok" with features; a failure never stops the
\* remaining sites from being fetched; the output file is written once,
\* after all sites have been attempted.
C24_OneRecordPerSite ==
  /\ \A k, l \in 1..Len(cb_links) : k # l => cb_links[k][1] # cb_links[l][1]
  /\ Len(a_order) = Len(cb_links)
  /\ {a_order[k] : k \in 1..Len(a_order)} = {cb_links[k] : k \in 1..Len(cb_links)}
  /\ \A k, l \in 1..Len(a_order) :
       k < l => int(a_order[k][1]) <= int(a_order[l][1])
  /\ Len(results) = a_i
  /\ Len(fetched) = a_i + (IF a_pc = "fetching" THEN 1 ELSE 0)
  /\ \A k \in 1..Len(fetched) : fetched[k].url = a_order[k][2]
  /\ \A k \in 1..Len(results) :
       /\ results[k].cb_number = a_order[k][1]
       /\ results[k].url = a_order[k][2]
       /\ fetched[k].outcome = "failed" =>
            /\ results[k].status = "error"
            /\ DOMAIN results[k] = {"cb_number", "url", "status", "error"}
            /\ results[k].error \in {"ConnectionError", "HTTPError"}
       /\ fetched[k].outcome = "ok" =>
            /\ results[k].status = "ok"
            /\ DOMAIN results[k] = {"cb_number", "url", "status", "features"}
            /\ DOMAIN results[k].features = KEY_ITEMS
       /\ fetched[k].outcome \in {"ok", "failed"}
  /\ a_exception # "none" => fetched = <<>> /\ written = <<>>
  /\ Len(written) <= 1
  /\ a_pc = "done" <=> Len(written) = 1
  /\ a_pc = "done" =>
       /\ Len(results) = Len(cb_links)
       /\ written[1].results = results

\* three sites found as 2, 10, 1 were fetched as 1, 2, 10; the first fetch
\* failed, the last succeeded, and the file is written
C24_Witness ==
  /\ a_pc = "done"
  /\ Len(results) = 3
  /\ int(cb_links[1][1]) > int(cb_links[3][1])
  /\ results[1].status = "error"
  /\ results[3].status = "ok"
  /\ Len(written) = 1

\* ----------------------------------------------------- demographics main
\* The generated text is a sequence over "{", "}", "k" (an object member,
\* "k": 1) and "x" (a character of prose).
ReplyChars == {"{", "}", "k", "x"}

RECURSIVE RepliesOfLen(_)
RepliesOfLen(n) ==
  IF n = 0 THEN {<<>>}
  ELSE {Append(t, c) : t \in RepliesOfLen(n - 1), c \in ReplyChars}

ReplyTexts == UNION {RepliesOfLen(n) : n \in 0..MaxReplyLen}

PDF_YEARS == <<"2022", "2023", "2024", "2025">>

\* str.find and str.rfind: 0-based index of the first and last c, -1 if none
find(text, c) ==
  LET at == {i \in 1..Len(text) : text[i] = c} IN
  IF at = {} THEN -1 ELSE Min(at) - 1

rfind(text, c) ==
  LET at == {i \in 1..Len(text) : text[i] = c} IN
  IF at = {} THEN -1 ELSE Max(at) - 1

\* text[lo:hi] for 0 <= lo
slice(text, lo, hi) == SubSeq(text, lo + 1, Min({hi, Len(text)}))

\* json.loads: the dict, as the set of its keys, or JSONDecodeError
json_loads(s) ==
  IF s = <<"{", "}">> THEN [ok |-> TRUE, value |-> {}]
  ELSE IF s = <<"{", "k", "}">> THEN [ok |-> TRUE, value |-> {"k"}]
  ELSE [ok |-> FALSE, exc |-> "JSONDecodeError"]

\* what the analysis request can lead to
AnalysisReplies ==
  { [raised |-> TRUE, status |-> 0, body |-> "none", response |-> <<>>],
    [raised |-> FALSE, status |-> 500, body |-> "not_json", response |-> <<>>],
    [raised |-> FALSE, status |-> 200, body |-> "not_json", response |-> <<>>],
    [raised |-> FALSE, status |-> 200, body |-> "no_response_key", response |-> <<>>] }
  \cup { [raised |-> FALSE, status |-> 200, body |-> "json", response |-> t] :
         t \in ReplyTexts }

\* lines 219-238: the text is turned into the analysis, the fallback record,
\* or an exception that leaves the function
parse_analysis(text) ==
  LET start_idx == find(text, "{")
      end_idx == rfind(text, "}") + 1
  IN IF start_idx >= 0 /\ end_idx > start_idx
     THEN LET loaded == json_loads(slice(text, start_idx, end_idx)) IN
          IF loaded.ok THEN [ok |-> TRUE, value |-> [json |-> loaded.value]]
          ELSE [ok |-> TRUE,
                value |-> [error |-> "Failed to parse JSON",
                           raw_response |-> slice(text, 0, 1000)]]
     ELSE [ok |-> FALSE, exc |-> "ValueError"]

\* analyze_all_years_with_llm, lines 199-238
analyze_all_years_with_llm(reply) ==
  IF reply.raised THEN [ok |-> FALSE, exc |-> "ConnectionError", text |-> <<>>]
  ELSE IF reply.status # 200 THEN [ok |-> FALSE, exc |-> "Exception", text |-> <<>>]
  ELSE IF reply.body = "not_json"
  THEN [ok |-> FALSE, exc |-> "JSONDecodeError", text |-> <<>>]
  ELSE LET text == IF reply.body = "json" THEN reply.response ELSE <<>>
           parsed == parse_analysis(text)
       IN IF parsed.ok THEN [ok |-> TRUE, value |-> parsed.value, text |-> text]
          ELSE [ok |-> FALSE, exc |-> parsed.exc, text |-> text]

InitDemo ==
  /\ ChunkIdle
  /\ RunIdle
  /\ LinkIdle
  /\ AuditIdle
  /\ LlmIdle
  /\ d_pc = "years"
  /\ year_extractions = {}
  /\ request_ok = FALSE
  /\ analysis_text = <<>>
  /\ final_analysis = "none"
  /\ d_files = {}
  /\ d_exception = "none"

DemoRest == <<chunk_vars, run_vars, link_vars, audit_vars, llm_vars>>

\* main, lines 252-269: the next year's report is downloaded, converted and
\* extracted, and the extraction is stored and saved; any of the three steps
\* may raise
ExtractYear ==
  /\ d_pc = "years"
  /\ Cardinality(year_extractions) < Len(PDF_YEARS)
  /\ LET year == PDF_YEARS[Cardinality(year_extractions) + 1] IN
     \E succeeded \in BOOLEAN :
       IF succeeded
       THEN /\ year_extractions' = year_extractions \cup {year}
            /\ d_files' = d_files \cup {<<"extraction_", year, ".txt">>}
            /\ UNCHANGED <<d_pc, d_exception>>
       ELSE /\ d_exception' = "Exception"
            /\ d_pc' = "raised"
            /\ UNCHANGED <<year_extractions, d_files>>
  /\ UNCHANGED <<request_ok, analysis_text, final_analysis>>
  /\ UNCHANGED DemoRest

\* main, line 276: the analysis is requested and its text parsed
Analyze ==
  /\ d_pc = "years"
  /\ Cardinality(year_extractions) = Len(PDF_YEARS)
  /\ \E reply \in AnalysisReplies :
       LET r == analyze_all_years_with_llm(reply) IN
       /\ request_ok' = (~reply.raised /\ reply.status = 200
                           /\ reply.body # "not_json")
       /\ analysis_text' = r.text
       /\ IF r.ok
          THEN /\ final_analysis' = r.value
               /\ d_pc' = "write"
               /\ UNCHANGED d_exception
          ELSE /\ d_exception' = r.exc
               /\ d_pc' = "raised"
               /\ UNCHANGED final_analysis
  /\ UNCHANGED <<year_extractions, d_files>>
  /\ UNCHANGED DemoRest

\* main, lines 279-281: the analysis file is written
WriteAnalysis ==
  /\ d_pc = "write"
  /\ d_files' = d_files \cup {<<"brooklyn_demographics_analysis.json">>}
  /\ d_pc' = "done"
  /\ UNCHANGED <<year_extractions, request_ok, analysis_text, final_analysis,
                 d_exception>>
  /\ UNCHANGED DemoRest

NextDemo == ExtractYear \/ Analyze \/ WriteAnalysis

SpecDemo == InitDemo /\ [][NextDemo]_vars

\* --------------------------------------------- demographics main: claims
\* the text holds a brace-delimited span that is valid JSON
Parses(text) ==
  /\ \E i \in 1..Len(text) : text[i] = "{"
  /\ \E j \in 1..Len(text) : text[j] = "}"
  /\ find(text, "{") <= rfind(text, "}")
  /\ json_loads(SubSeq(text, find(text, "{") + 1, rfind(text, "}") + 1)).ok

\* C25 (as stated): whenever the response text cannot be turned into a JSON
\* object (no brace-delimited span, or a span that is not valid JSON),
\* analyze_all_years_with_llm returns the fallback record {error,
\* raw_response} instead of raising, so main writes the analysis file
\* whenever the four yearly extractions and the analysis request succeeded.
C25_UnparseableTextFallsBack ==
  /\ (request_ok /\ ~Parses(analysis_text)) =>
       /\ d_exception = "none"
       /\ final_analysis = [error |-> "Failed to parse JSON",
                            raw_response |-> analysis_text]
  /\ (request_ok /\ d_pc \in {"done", "raised"}) =>
       <<"brooklyn_demographics_analysis.json">> \in d_files

\* ------------------------------------------------------------ provider run
Providers == {"openai", "OpenAI", "deepseek", "DEEPSEEK", "ollama", ""}

\* str.lower() of a provider argument
lower(p) ==
  IF p = "OpenAI" THEN "openai" ELSE IF p = "DEEPSEEK" THEN "deepseek" ELSE p

\* os.getenv of an API key variable: unset, empty, or a key
KeyValues == {None, Str(<<>>), Str(<<"s", "k">>)}

Environs == [OPENAI_API_KEY : KeyValues, DEEPSEEK_API_KEY : KeyValues]

\* what the chat completion request can lead to
LlmReplies ==
  { [raised |-> TRUE,  status |-> 0,   body |-> "none"],
    [raised |-> FALSE, status |-> 500, body |-> "not_json"],
    [raised |-> FALSE, status |-> 200, body |-> "not_json"],
    [raised |-> FALSE, status |-> 200, body |-> "no_choices_key"],
    [raised |-> FALSE, status |-> 200, body |-> "empty_choices"],
    [raised |-> FALSE, status |-> 200, body |-> "content"] }

\* call_llm, lines 118-134: the provider and its key are checked; the
\* request to post, or the exception raised before anything is posted
llm_request(prompt, p, env) ==
  IF lower(p) = "openai"
  THEN IF Truthy(env.OPENAI_API_KEY)
       THEN [ok |-> TRUE, request |-> [provider |-> "openai", prompt |-> prompt,
                                       api_key |-> env.OPENAI_API_KEY]]
       ELSE [ok |-> FALSE, exc |-> "RuntimeError"]
  ELSE IF lower(p) = "deepseek"
  THEN IF Truthy(env.DEEPSEEK_API_KEY)
       THEN [ok |-> TRUE, request |-> [provider |-> "deepseek", prompt |-> prompt,
                                       api_key |-> env.DEEPSEEK_API_KEY]]
       ELSE [ok |-> FALSE, exc |-> "RuntimeError"]
  ELSE [ok |-> FALSE, exc |-> "ValueError"]

\* call_llm, lines 150-157: the content returned, or the exception raised
llm_response(request, reply) ==
  IF reply.raised THEN [ok |-> FALSE, exc |-> "ConnectionError"]
  ELSE IF reply.status >= 400 THEN [ok |-> FALSE, exc |-> "HTTPError"]
  ELSE IF reply.body = "not_json" THEN [ok |-> FALSE, exc |-> "JSONDecodeError"]
  ELSE IF reply.body \in {"no_choices_key", "empty_choices"}
  THEN [ok |-> FALSE, exc |-> "RuntimeError"]
  ELSE [ok |-> TRUE, value |-> [content_for |-> request.prompt]]

\* os.path.join(output_dir, f"needs_comparison_{borough}_CB{cb_num}.json")
llm_filename(p, num) ==
  <<"api_outputs", lower(p), "needs_comparison_", "BK", "_CB", ToString(num), ".json">>

InitLlm ==
  /\ ChunkIdle
  /\ RunIdle
  /\ LinkIdle
  /\ AuditIdle
  /\ DemoIdle
  /\ l_pc = "loop"
  /\ provider \in Providers
  /\ environ \in Environs
  /\ n_boards \in 0..MaxCbs
  /\ max_cbs \in 0..MaxCbs
  /\ l_i = 0
  /\ posted = <<>>
  /\ l_files = {}
  /\ l_exception = "none"

LlmRest == <<chunk_vars, run_vars, link_vars, audit_vars, demo_vars>>

\* faulty variant: the request is posted before the key is looked at
CallLlm_post_first ==
  /\ l_pc = "loop"
  /\ l_i < n_boards
  /\ l_i < max_cbs
  /\ LET r == llm_request(l_i + 1, provider, environ) IN
     IF r.ok \/ r.exc = "RuntimeError"
     THEN /\ posted' = Append(posted, [provider |-> lower(provider),
                                       prompt |-> l_i + 1])
          /\ l_pc' = "await"
          /\ UNCHANGED l_exception
     ELSE /\ l_exception' = r.exc
          /\ l_pc' = "raised"
          /\ UNCHANGED posted
  /\ UNCHANGED <<provider, environ, n_boards, max_cbs, l_i, l_files>>
  /\ UNCHANGED LlmRest

\* run, lines 169-183, and call_llm, lines 118-150: the prompt of the next
\* board is built and call_llm posts it, or raises before posting
CallLlm ==
  /\ l_pc = "loop"
  /\ l_i < n_boards
  /\ l_i < max_cbs
  /\ LET r == llm_request(l_i + 1, provider, environ) IN
     IF r.ok
     THEN /\ posted' = Append(posted, r.request)
          /\ l_pc' = "await"
          /\ UNCHANGED l_exception
     ELSE /\ l_exception' = r.exc
          /\ l_pc' = "raised"
          /\ UNCHANGED posted
  /\ UNCHANGED <<provider, environ, n_boards, max_cbs, l_i, l_files>>
  /\ UNCHANGED LlmRest

\* call_llm, lines 150-157, and run, lines 183-189: the reply arrives; the
\* content is written to the board's file, or the exception leaves run
ReturnLlm ==
  /\ l_pc = "await"
  /\ \E reply \in LlmReplies :
       LET r == llm_response(posted[Len(posted)], reply) IN
       IF r.ok
       THEN /\ l_files' = l_files \cup {llm_filename(provider, l_i + 1)}
            /\ l_i' = l_i + 1
            /\ l_pc' = "loop"
            /\ UNCHANGED l_exception
       ELSE /\ l_exception' = r.exc
            /\ l_pc' = "raised"
            /\ UNCHANGED <<l_files, l_i>>
  /\ UNCHANGED <<provider, environ, n_boards, max_cbs, posted>>
  /\ UNCHANGED LlmRest

\* run, lines 169-171: the boards are exhausted or max_cbs are done
LlmRunEnd ==
  /\ l_pc = "loop"
  /\ (l_i >= n_boards \/ l_i >= max_cbs)
  /\ l_pc' = "done"
  /\ UNCHANGED <<provider, environ, n_boards, max_cbs, l_i, posted, l_files,
                 l_exception>>
  /\ UNCHANGED LlmRest

NextLlm == CallLlm \/ ReturnLlm \/ LlmRunEnd

SpecLlm == InitLlm /\ [][NextLlm]_vars

\* ---------------------------------------------------- provider run: claims
KnownProvider == lower(provider) \in {"openai", "deepseek"}

\* the API key variable of the chosen provider is unset or empty
KeyMissing ==
  \/ lower(provider) = "openai"
       /\ (environ.OPENAI_API_KEY = None \/ environ.OPENAI_API_KEY = Str(<<>>))
  \/ lower(provider) = "deepseek"
       /\ (environ.DEEPSEEK_API_KEY = None \/ environ.DEEPSEEK_API_KEY = Str(<<>>))

\* C26: call_llm sends no HTTP request when its preconditions fail: a
\* provider other than "openai" or "deepseek" (case-insensitively) raises
\* ValueError and an unset or empty API key for the chosen provider raises
\* RuntimeError, both before any request is issued; in run such a failure
\* means no output file is written for the current or any later board.
C26_NoRequestWhenPreconditionsFail ==
  /\ ~KnownProvider =>
       /\ posted = <<>>
       /\ l_files = {}
       /\ l_pc \in {"loop", "raised", "done"}
       /\ l_pc = "raised" <=> l_exception = "ValueError"
       /\ l_pc = "done" => (n_boards = 0 \/ max_cbs = 0)
  /\ KeyMissing =>
       /\ posted = <<>>
       /\ l_files = {}
       /\ l_pc \in {"loop", "raised", "done"}
       /\ l_pc = "raised" <=> l_exception = "RuntimeError"
       /\ l_pc = "done" => (n_boards = 0 \/ max_cbs = 0)
  /\ (KnownProvider /\ ~KeyMissing) => l_exception # "ValueError"
  /\ l_exception # "none" <=> l_pc = "raised"
  /\ l_files = {llm_filename(provider, k) : k \in 1..l_i}

\* the provider "DEEPSEEK" with an empty DEEPSEEK_API_KEY and a set
\* OPENAI_API_KEY: run has raised RuntimeError with two boards to process,
\* nothing posted and nothing written
C26_Witness ==
  /\ l_pc = "raised"
  /\ provider = "DEEPSEEK"
  /\ environ.DEEPSEEK_API_KEY = Str(<<>>)
  /\ Truthy(environ.OPENAI_API_KEY)
  /\ l_exception = "RuntimeError"
  /\ n_boards >= 2 /\ max_cbs >= 2
  /\ posted = <<>>
  /\ l_files = {}

====
